---- MODULE Spec2Model ----
(***************************************************************************)
(* Storyline: the FileUpload component (CSV ingestion, field mapping,      *)
(* per-phase consolidation of date ranges) and the App that owns the       *)
(* timeline.  Source: src/src/components/FileUpload.tsx and                 *)
(* src/src/components/Timeline.tsx.                                         *)
(*                                                                         *)
(* Representation.  A CSV text is kept as the result of the two literal    *)
(* splits the code performs: a non-empty sequence of lines (split on       *)
(* newline), each a non-empty sequence of raw cells (split on comma).  A   *)
(* raw cell is [ws, txt]: txt is the cell without its surrounding          *)
(* whitespace and ws tells whether it had any, so that trim is a real      *)
(* operation.  A Date is the number of its calendar day counted from      *)
(* 2024-01-01 = 1 (every date the code builds is a local midnight), null   *)
(* is -1.                                                                  *)
(***************************************************************************)
EXTENDS Integers, Sequences, FiniteSets, TLC

\* Bounds of the model: data rows of a generated CSV text, distinct calendar
\* days its date cells range over, file reads in flight at once.
MaxRows == 3
MaxDay == 3
MaxReaders == 2

\* Entries of the manual form.
MaxEntries == 2

null == -1
undefined == "<undefined>"

Cell(t) == [ws |-> FALSE, txt |-> t]
Pad(t) == [ws |-> TRUE, txt |-> t]

\* String.prototype.trim on a raw cell.
trim(c) == c.txt

\* line.split(',').map(cell => cell.trim())
trimCells(line) == [i \in 1..Len(line) |-> trim(line[i])]

\* line.trim() is truthy: the line is not made of whitespace only.
nonBlank(line) == ~(Len(line) = 1 /\ line[1].txt = "")

\* Array.prototype.indexOf (0-based, -1 when absent).
indexOf(arr, x) ==
  IF \E i \in 1..Len(arr) : arr[i] = x
  THEN (CHOOSE i \in 1..Len(arr) : arr[i] = x /\ \A j \in 1..(i-1) : arr[j] # x) - 1
  ELSE -1

\* arr[index] for a 0-based index, undefined past the end.
at(arr, index) == IF index + 1 \in 1..Len(arr) THEN arr[index + 1] ELSE undefined

(***************************************************************************)
(* Dates.                                                                  *)
(***************************************************************************)
DaysInMonth == <<31, 29, 31, 30, 31, 30, 31, 31, 30, 31, 30, 31>>

RECURSIVE DaysBefore(_)
DaysBefore(m) == IF m = 1 THEN 0 ELSE DaysBefore(m - 1) + DaysInMonth[m - 1]

TwoDigits(n) == IF n < 10 THEN "0" \o ToString(n) ELSE ToString(n)

\* The text "2024-MM-dd" of month m, day d.
DateStr(m, d) == "2024-" \o TwoDigits(m) \o "-" \o TwoDigits(d)

\* The text of day number n of 2024.
DayStr(n) ==
  LET m == CHOOSE k \in 1..12 : DaysBefore(k) < n /\ n <= DaysBefore(k) + DaysInMonth[k]
  IN  DateStr(m, n - DaysBefore(m))

DayTexts == [n \in 1..366 |-> DayStr(n)]

\* The calendar dates of 2024 by their text; the value is the day number.
Calendar ==
  [s \in {DayTexts[n] : n \in 1..366} |-> CHOOSE n \in 1..366 : DayTexts[n] = s]

\* parse(dateStr, 'yyyy-MM-dd', new Date()) then isValid: a Date or null.
validateAndParseDate(dateStr) ==
  IF dateStr \in DOMAIN Calendar THEN Calendar[dateStr] ELSE null

isBefore(a, b) == a < b
isAfter(a, b) == a > b
isSameDay(a, b) == a = b
addDays(d, n) == d + n

isLeapYear(y) == y % 4 = 0 /\ (y % 100 # 0 \/ y % 400 = 0)

\* Days from 2024-01-01 to the first day of year y (y >= 2024).
RECURSIVE daysBeforeYear(_)
daysBeforeYear(y) ==
  IF y = 2024 THEN 0
  ELSE daysBeforeYear(y - 1) + (IF isLeapYear(y - 1) THEN 366 ELSE 365)

\* Days of year y before its month m (1..12).
RECURSIVE daysBeforeMonth(_, _)
daysBeforeMonth(y, m) ==
  IF m = 1 THEN 0
  ELSE daysBeforeMonth(y, m - 1)
         + (IF m - 1 = 2 /\ ~isLeapYear(y) THEN 28 ELSE DaysInMonth[m - 1])

\* new Date(year, monthIndex, day) with monthIndex in 0..11: local midnight
\* of that day, as the day number counted from 2024-01-01 = 1.
newDate(year, monthIndex, day) ==
  daysBeforeYear(year) + daysBeforeMonth(year, monthIndex + 1) + day

(***************************************************************************)
(* Plain objects used as maps.                                             *)
(***************************************************************************)
\* Properties every object literal inherits from Object.prototype.
ObjectPrototypeKeys ==
  {"constructor", "toString", "toLocaleString", "valueOf", "hasOwnProperty",
   "isPrototypeOf", "propertyIsEnumerable", "__proto__",
   "__defineGetter__", "__defineSetter__", "__lookupGetter__", "__lookupSetter__"}

\* Canonical array-index strings ("0", "1", ...) and their numeric value.
IndexKeys == [s \in {ToString(n) : n \in 0..20} |-> CHOOSE n \in 0..20 : ToString(n) = s]

isIndexKey(k) == k \in DOMAIN IndexKeys

\* Insert x into a sequence of index keys kept in ascending numeric order.
RECURSIVE insertIndexKey(_, _)
insertIndexKey(ks, x) ==
  IF ks = <<>> THEN <<x>>
  ELSE IF IndexKeys[x] < IndexKeys[Head(ks)] THEN <<x>> \o ks
  ELSE <<Head(ks)>> \o insertIndexKey(Tail(ks), x)

\* Own-property order of an object whose keys were created in the order ks:
\* index keys first, ascending, then the other strings in creation order.
ownKeys(ks) ==
  LET F[i \in 0..Len(ks)] ==
        IF i = 0 THEN <<>>
        ELSE IF isIndexKey(ks[i]) THEN insertIndexKey(F[i-1], ks[i]) ELSE F[i-1]
  IN  F[Len(ks)] \o SelectSeq(ks, LAMBDA k : ~isIndexKey(k))

(***************************************************************************)
(* processCSV, lines 62-194.                                               *)
(***************************************************************************)
CsvError == "Unable to create timeline. Please check your data format and try again."

\* const headers = lines[0].split(',').map(header => header.trim())
headersOf(csvText) == trimCells(csvText[1])

\* lines.slice(0, 6).map(line => line.split(',').map(cell => cell.trim()))
previewRows(csvText) ==
  [i \in 1..(IF Len(csvText) < 6 THEN Len(csvText) ELSE 6) |-> trimCells(csvText[i])]

\* lines.slice(1).filter(line => line.trim())
dataRowsOf(csvText) == SelectSeq(Tail(csvText), nonBlank)

\* The mapping processCSV works with: the caller's, or the default column
\* names when none is given (<<>> stands for the absent argument).
defaultMapping == [phase |-> "phase", startDate |-> "startDate", endDate |-> "endDate"]

resolveIndices(headers, m) ==
  [phase |-> indexOf(headers, m.phase),
   startDate |-> indexOf(headers, m.startDate),
   endDate |-> indexOf(headers, m.endDate)]

\* Mutant of unresolved: the validation of the indices is left out.
unresolvedNever(ix) == FALSE

\* Line 79: one of the default columns was not found.
lacksDefault(ix) == ix.phase = -1 \/ ix.startDate = -1 \/ ix.endDate = -1

\* Line 97: one of the mapped columns was not found.
unresolved(ix) == ix.phase = -1 \/ ix.startDate = -1 \/ ix.endDate = -1

\* The additionalData of a row: every column but the three mapped ones, a
\* later column of the same name overwriting an earlier one.
additionalDataOf(headers, values, ix) ==
  LET others == {i \in 0..(Len(headers) - 1) :
                   i # ix.phase /\ i # ix.startDate /\ i # ix.endDate}
      lastOf(h) == CHOOSE i \in others :
                     headers[i + 1] = h /\ \A j \in others : headers[j + 1] = h => j <= i
  IN  [h \in {headers[i + 1] : i \in others} |-> at(values, lastOf(h))]

\* Mutant of rowEntry: the end-before-start test is left out.
rowEntryNoRangeCheck(headers, values, ix) ==
  LET phase == at(values, ix.phase)
      startDate == validateAndParseDate(at(values, ix.startDate))
      endDate == validateAndParseDate(at(values, ix.endDate))
  IN  IF phase = "" \/ phase = undefined THEN [tag |-> "skip"]
      ELSE IF startDate = null \/ endDate = null
        THEN [tag |-> "throw", err |-> "InvalidDateFormat"]
      ELSE [tag |-> "entry", phase |-> phase,
            entry |-> [startDate |-> startDate, endDate |-> endDate,
                       additionalData |-> additionalDataOf(headers, values, ix)]]

\* Mutant of rowEntry: the dates are validated before the phase is looked at.
rowEntryDatesFirst(headers, values, ix) ==
  LET phase == at(values, ix.phase)
      startDate == validateAndParseDate(at(values, ix.startDate))
      endDate == validateAndParseDate(at(values, ix.endDate))
  IN  IF startDate = null \/ endDate = null
        THEN [tag |-> "throw", err |-> "InvalidDateFormat"]
      ELSE IF isBefore(endDate, startDate)
        THEN [tag |-> "throw", err |-> "InvalidDateRange"]
      ELSE IF phase = "" \/ phase = undefined THEN [tag |-> "skip"]
      ELSE [tag |-> "entry", phase |-> phase,
            entry |-> [startDate |-> startDate, endDate |-> endDate,
                       additionalData |-> additionalDataOf(headers, values, ix)]]

\* Mutant of rowEntry: only a missing phase cell is skipped, not an empty one.
rowEntryKeepsEmptyPhase(headers, values, ix) ==
  LET phase == at(values, ix.phase)
      startDate == validateAndParseDate(at(values, ix.startDate))
      endDate == validateAndParseDate(at(values, ix.endDate))
  IN  IF phase = undefined THEN [tag |-> "skip"]
      ELSE IF startDate = null \/ endDate = null
        THEN [tag |-> "throw", err |-> "InvalidDateFormat"]
      ELSE IF isBefore(endDate, startDate)
        THEN [tag |-> "throw", err |-> "InvalidDateRange"]
      ELSE [tag |-> "entry", phase |-> phase,
            entry |-> [startDate |-> startDate, endDate |-> endDate,
                       additionalData |-> additionalDataOf(headers, values, ix)]]

\* One pass of the row loop up to the push: skip, throw, or a validated entry.
rowEntry(headers, values, ix) ==
  LET phase == at(values, ix.phase)
      startDate == validateAndParseDate(at(values, ix.startDate))
      endDate == validateAndParseDate(at(values, ix.endDate))
  IN  IF phase = "" \/ phase = undefined THEN [tag |-> "skip"]
      ELSE IF startDate = null \/ endDate = null
        THEN [tag |-> "throw", err |-> "InvalidDateFormat"]
      ELSE IF isBefore(endDate, startDate)
        THEN [tag |-> "throw", err |-> "InvalidDateRange"]
      ELSE [tag |-> "entry", phase |-> phase,
            entry |-> [startDate |-> startDate, endDate |-> endDate,
                       additionalData |-> additionalDataOf(headers, values, ix)]]

\* phaseGroups is {keys, groups}: the phases in the order their property was
\* created, and the entries pushed under each.
emptyGroups == [keys |-> <<>>, groups |-> <<>>]

\* !phaseGroups[phase]: no own property yet, and nothing inherited either.
groupMissing(pg, phase) ==
  /\ \A i \in 1..Len(pg.keys) : pg.keys[i] # phase
  /\ phase \notin ObjectPrototypeKeys

\* phaseGroups[phase].push is callable: the property holds an array.
canPush(pg, phase) == \E i \in 1..Len(pg.keys) : pg.keys[i] = phase

pushEntry(pg, phase, e) ==
  IF \E i \in 1..Len(pg.keys) : pg.keys[i] = phase
  THEN LET i == CHOOSE j \in 1..Len(pg.keys) : pg.keys[j] = phase
       IN  [pg EXCEPT !.groups[i] = Append(@, e)]
  ELSE [keys |-> Append(pg.keys, phase), groups |-> Append(pg.groups, <<e>>)]

\* The row loop, lines 113-143.
RECURSIVE collectRows(_, _, _, _)
collectRows(headers, rows, ix, pg) ==
  IF rows = <<>> THEN [err |-> "", pg |-> pg]
  ELSE LET r == rowEntry(headers, trimCells(Head(rows)), ix)
       IN  IF r.tag = "skip" THEN collectRows(headers, Tail(rows), ix, pg)
           ELSE IF r.tag = "throw" THEN [err |-> r.err, pg |-> pg]
           ELSE IF ~groupMissing(pg, r.phase) /\ ~canPush(pg, r.phase)
             THEN [err |-> "TypeError", pg |-> pg]
           ELSE collectRows(headers, Tail(rows), ix, pushEntry(pg, r.phase, r.entry))

\* entries.sort((a, b) => a.startDate.getTime() - b.startDate.getTime()):
\* a stable sort, ascending by start date.
RECURSIVE insertByStart(_, _)
insertByStart(sorted, e) ==
  IF sorted = <<>> THEN <<e>>
  ELSE IF e.startDate - Head(sorted).startDate < 0 THEN <<e>> \o sorted
  ELSE <<Head(sorted)>> \o insertByStart(Tail(sorted), e)

sortByStart(entries) ==
  LET F[i \in 0..Len(entries)] ==
        IF i = 0 THEN <<>> ELSE insertByStart(F[i - 1], entries[i])
  IN  F[Len(entries)]

\* Mutant of touches: the adjacency test of line 162 is left out.
touchesNoAdjacency(curr, lastRange) ==
  \/ isBefore(curr.startDate, lastRange.endDate)
  \/ isSameDay(curr.startDate, lastRange.endDate)

\* The test of lines 159-163.
touches(curr, lastRange) ==
  \/ isBefore(curr.startDate, lastRange.endDate)
  \/ isSameDay(curr.startDate, lastRange.endDate)
  \/ isSameDay(addDays(lastRange.endDate, 1), curr.startDate)

\* Mutant of extend: on a key collision the value of lastRange is kept.
extendKeepsEarlierData(lastRange, curr) ==
  [startDate |-> lastRange.startDate,
   endDate |-> IF isAfter(curr.endDate, lastRange.endDate)
               THEN curr.endDate ELSE lastRange.endDate,
   additionalData |-> lastRange.additionalData @@ curr.additionalData]

\* Mutant of extend: the end date of curr is taken without comparing.
extendTakesCurrEnd(lastRange, curr) ==
  [startDate |-> lastRange.startDate,
   endDate |-> curr.endDate,
   additionalData |-> curr.additionalData @@ lastRange.additionalData]

\* Lines 164-165: curr folded into lastRange.
extend(lastRange, curr) ==
  [startDate |-> lastRange.startDate,
   endDate |-> IF isAfter(curr.endDate, lastRange.endDate)
               THEN curr.endDate ELSE lastRange.endDate,
   additionalData |-> curr.additionalData @@ lastRange.additionalData]

\* The reducer of lines 153-170.
mergeStep(acc, curr) ==
  IF Len(acc) = 0 THEN <<curr>>
  ELSE LET lastRange == acc[Len(acc)]
       IN  IF touches(curr, lastRange)
           THEN [acc EXCEPT ![Len(acc)] = extend(lastRange, curr)]
           ELSE Append(acc, curr)

mergedRanges(entries) ==
  LET F[i \in 0..Len(entries)] ==
        IF i = 0 THEN <<>> ELSE mergeStep(F[i - 1], entries[i])
  IN  F[Len(entries)]

\* Mutant of consolidatePhase: the last merged range is taken for the first.
consolidatePhaseLastRange(phase, entries) ==
  LET ranges == mergedRanges(sortByStart(entries))
      lastRange == ranges[Len(ranges)]
  IN  [phase |-> phase, startDate |-> lastRange.startDate,
       endDate |-> lastRange.endDate, additionalData |-> lastRange.additionalData]

\* The callback of lines 150-179 for one phase.
consolidatePhase(phase, entries) ==
  LET firstRange == mergedRanges(sortByStart(entries))[1]
  IN  [phase |-> phase, startDate |-> firstRange.startDate,
       endDate |-> firstRange.endDate, additionalData |-> firstRange.additionalData]

\* Object.entries(phaseGroups).map(...)
consolidate(pg) ==
  LET order == ownKeys(pg.keys)
      groupOf(k) == pg.groups[CHOOSE i \in 1..Len(pg.keys) : pg.keys[i] = k]
  IN  [i \in 1..Len(order) |-> consolidatePhase(order[i], groupOf(order[i]))]

\* Mutant of processCSV: a row that fails validation ends the loop and the
\* rows collected before it are delivered.
processCSVPartial(csvText, mapping) ==
  LET headers == headersOf(csvText)
      out(kind, err, data) ==
        [kind |-> kind, err |-> err, headers |-> headers,
         preview |-> previewRows(csvText), data |-> data]
      m == IF mapping = <<>> THEN defaultMapping ELSE mapping[1]
      ix == resolveIndices(headers, m)
      dataRows == dataRowsOf(csvText)
      got == collectRows(headers, dataRows, ix, emptyGroups)
      consolidatedData == consolidate(got.pg)
  IN  IF mapping = <<>> /\ lacksDefault(resolveIndices(headers, defaultMapping))
        THEN out("mapping", "", <<>>)
      ELSE IF unresolved(ix) THEN out("error", "InvalidMapping", <<>>)
      ELSE IF Len(dataRows) = 0 THEN out("error", "EmptyDataset", <<>>)
      ELSE IF Len(got.pg.keys) = 0 /\ got.err # "" THEN out("error", got.err, <<>>)
      ELSE IF Len(got.pg.keys) = 0 THEN out("error", "EmptyDataset", <<>>)
      ELSE IF Len(consolidatedData) = 0 THEN out("error", "EmptyDataset", <<>>)
      ELSE out("delivered", "", consolidatedData)

\* What one call does, as {kind, err, headers, preview, data}: kind is
\* "mapping" (the early return of line 82), "delivered" (line 185) or
\* "error" (the catch of line 187, err naming the throw that led there).
processCSV(csvText, mapping) ==
  LET headers == headersOf(csvText)
      out(kind, err, data) ==
        [kind |-> kind, err |-> err, headers |-> headers,
         preview |-> previewRows(csvText), data |-> data]
      m == IF mapping = <<>> THEN defaultMapping ELSE mapping[1]
      ix == resolveIndices(headers, m)
      dataRows == dataRowsOf(csvText)
      got == collectRows(headers, dataRows, ix, emptyGroups)
      consolidatedData == consolidate(got.pg)
  IN  IF mapping = <<>> /\ lacksDefault(resolveIndices(headers, defaultMapping))
        THEN out("mapping", "", <<>>)
      ELSE IF unresolved(ix) THEN out("error", "InvalidMapping", <<>>)
      ELSE IF Len(dataRows) = 0 THEN out("error", "EmptyDataset", <<>>)
      ELSE IF got.err # "" THEN out("error", got.err, <<>>)
      ELSE IF Len(got.pg.keys) = 0 THEN out("error", "EmptyDataset", <<>>)
      ELSE IF Len(consolidatedData) = 0 THEN out("error", "EmptyDataset", <<>>)
      ELSE out("delivered", "", consolidatedData)

(***************************************************************************)
(* handleManualSubmit, lines 252-275: its validation and its records.      *)
(***************************************************************************)
ManualError ==
  "Please fill in all required fields and ensure start month is before end month."

\* The strings of the manual form are whitespace only or carry no
\* surrounding whitespace; String.prototype.trim empties the former.
WhitespaceOnly == {"", " "}
trimString(str) == IF str \in WhitespaceOnly THEN "" ELSE str

\* An additionalData that is undefined, kept apart from every object.
undefinedData == [k \in {undefined} |-> undefined]

\* Mutant of manualEntryValid: the months are not compared.
manualEntryValidPhaseOnly(entry) == trimString(entry.phase) # ""

\* The predicate of lines 254-256.
manualEntryValid(entry) ==
  trimString(entry.phase) # "" /\ entry.startMonth <= entry.endMonth

\* Lines 266-271.
timelineEntries(entries, currentYear) ==
  [i \in 1..Len(entries) |->
     [phase |-> entries[i].phase,
      startDate |-> newDate(currentYear, entries[i].startMonth, 1),
      endDate |-> newDate(currentYear, entries[i].endMonth, 1),
      additionalData |-> IF entries[i].description # ""
                         THEN [description |-> entries[i].description]
                         ELSE undefinedData]]

(***************************************************************************)
(* State.  The FileUpload hooks (lines 35-48), the App's timelineData      *)
(* (Timeline.tsx line 149) and the FileReaders whose onload has not fired  *)
(* yet.  A reader is {text, mapping, orphan}: the text it will deliver,    *)
(* the mapping argument of its processCSV call (<<>> when absent) and      *)
(* whether the FileUpload instance that created it has been unmounted.     *)
(* call records the last processCSV call: its arguments and what it did;   *)
(* submits counts the handleManualSubmit invocations modulo 2.             *)
(***************************************************************************)
VARIABLES csvHeaders, showMapping, lastFile, previewData, error, fieldMapping,
          showManualForm, manualEntries, timelineData, readers, call, submits

vars == <<csvHeaders, showMapping, lastFile, previewData, error, fieldMapping,
          showManualForm, manualEntries, timelineData, readers, call, submits>>

uploadVars == <<csvHeaders, showMapping, lastFile, previewData, error, fieldMapping,
                showManualForm, manualEntries>>

NoFile == <<>>
emptyMapping == [phase |-> "", startDate |-> "", endDate |-> ""]

\* The entry of lines 47 and 237.
initialEntry == [phase |-> "", startMonth |-> 0, endMonth |-> 11, description |-> ""]

\* useState initial values of a freshly mounted FileUpload.
FreshUpload ==
  /\ csvHeaders = <<>>
  /\ showMapping = FALSE
  /\ lastFile = NoFile
  /\ previewData = <<>>
  /\ error = ""
  /\ fieldMapping = emptyMapping
  /\ showManualForm = FALSE
  /\ manualEntries = <<initialEntry>>

FreshUploadNext ==
  /\ csvHeaders' = <<>>
  /\ showMapping' = FALSE
  /\ lastFile' = NoFile
  /\ previewData' = <<>>
  /\ error' = ""
  /\ fieldMapping' = emptyMapping
  /\ showManualForm' = FALSE
  /\ manualEntries' = <<initialEntry>>

\* App renders FileUpload only while the timeline is empty (Timeline.tsx 155).
mounted == timelineData = <<>>
manualView == mounted /\ showManualForm
mappingView == mounted /\ ~showManualForm /\ showMapping
dropView == mounted /\ ~showManualForm /\ ~showMapping

orphaned(rs) == [i \in 1..Len(rs) |-> [rs[i] EXCEPT !.orphan = TRUE]]
removeAt(rs, i) == [j \in 1..(Len(rs) - 1) |-> IF j < i THEN rs[j] ELSE rs[j + 1]]

(***************************************************************************)
(* CSV texts.                                                              *)
(***************************************************************************)
InputDays == 30..(29 + MaxDay)
BadDate == "2024-02-30"

DefaultHeader == <<Cell("phase"), Cell("startDate"), Cell("endDate"), Cell("note")>>

\* A data line of four cells; the note names the line it stands on.
DataLine(phaseCell, startTxt, endTxt, i) ==
  <<phaseCell, Cell(startTxt), Cell(endTxt), Cell("n" \o ToString(i))>>

\* The text of a header and one line per row of the choice f.
TextOf(header, f) ==
  <<header>> \o [i \in 1..Len(f) |-> DataLine(f[i][1], f[i][2], f[i][3], i)]

\* Valid rows: phase A over every range of the input days, phase B on the
\* first and on the last day.
MergeRows ==
  {<<Cell("A"), DayStr(se[1]), DayStr(se[2])>> :
     se \in {x \in InputDays \X InputDays : x[1] <= x[2]}}
  \cup {<<Cell("B"), DayStr(d), DayStr(d)>> : d \in {30, 29 + MaxDay}}

\* Rows of many phase cells (blank, padded, digits, an inherited property
\* name) on one day, and rows that fail validation.
PhaseRows ==
  {<<c, DayStr(30), DayStr(30)>> :
     c \in {Cell(""), Pad(""), Cell("A"), Pad("A"), Cell("B"), Cell("1"),
            Cell("constructor")}}
  \cup {<<Cell(p), DayStr(31), DayStr(30)>> : p \in {"", "A"}}
  \cup {<<Cell(p), BadDate, DayStr(30)>> : p \in {"", "A"}}

BlankLine == <<Pad("")>>

\* Texts whose header needs a mapping.
OtherHeaders ==
  {<<Cell("name"), Pad("from"), Cell("to")>>,
   <<Pad("phase"), Cell("startDate")>>}

\* A text that needs a mapping and carries a note column: phase B, then
\* phase A on two adjacent days.
NotedText ==
  TextOf(<<Cell("name"), Cell("from"), Cell("to"), Cell("note")>>,
         <<<<Cell("B"), DayStr(31), DayStr(31)>>,
           <<Cell("A"), DayStr(30), DayStr(30)>>,
           <<Cell("A"), DayStr(31), DayStr(31)>>>>)

OtherTexts ==
  {<<h>> \o body : h \in OtherHeaders,
     body \in {<<>>,
               <<<<Cell("A"), Cell(DayStr(30)), Cell(DayStr(31))>>>>,
               <<<<Cell("A"), Cell(DayStr(31)), Cell(DayStr(30))>>>>,
               <<<<Cell("A"), Cell(DayStr(30)), Cell(DayStr(30))>>,
                 <<Pad("B"), Cell(DayStr(30)), Cell(DayStr(31))>>>>}}
  \cup {NotedText}

(***************************************************************************)
(* Operations.                                                             *)
(***************************************************************************)
\* The error message a call leaves: cleared on entry (line 64), set in the
\* catch (line 188).
errorAfter(res) == IF res.kind = "error" THEN CsvError ELSE ""

\* Mutant of csvHeadersAfter: setCsvHeaders is never called.
csvHeadersKept(res, old) == old

\* The csvHeaders a call leaves: set on the mapping-required return (line
\* 80); in the catch, setCsvHeaders(headers || []) of line 191 reads a name
\* that is out of scope there, and the ReferenceError leaves the old value.
csvHeadersAfter(res, old) == IF res.kind = "mapping" THEN res.headers ELSE old

\* Mutant of Onload: a delivery is appended to the timeline on display.
OnloadAccumulates(i) ==
  LET r == readers[i]
      res == processCSV(r.text, r.mapping)
      rest == removeAt(readers, i)
  IN  /\ call' = <<[text |-> r.text, mapping |-> r.mapping, orphan |-> r.orphan,
                    kind |-> res.kind, err |-> res.err, data |-> res.data]>>
      /\ UNCHANGED submits
      /\ IF res.kind = "delivered"
         THEN /\ timelineData' = timelineData \o res.data
              /\ FreshUploadNext
              /\ readers' = orphaned(rest)
         ELSE /\ readers' = rest
              /\ UNCHANGED timelineData
              /\ IF r.orphan \/ ~mounted
                 THEN UNCHANGED uploadVars
                 ELSE /\ previewData' = res.preview
                      /\ showMapping' = TRUE
                      /\ UNCHANGED <<lastFile, fieldMapping, showManualForm,
                                     manualEntries>>
                      /\ error' = errorAfter(res)
                      /\ csvHeaders' = csvHeadersAfter(res, csvHeaders)

\* reader.onload of reader i: processCSV(reader.result, mapping), lines
\* 201-203 and 212-214.  The setters of an unmounted FileUpload do nothing;
\* setTimelineData is the App's and always acts.  A delivered timeline is
\* never empty, so the App unmounts FileUpload and the readers still in
\* flight become orphans.
Onload(i) ==
  LET r == readers[i]
      res == processCSV(r.text, r.mapping)
      rest == removeAt(readers, i)
  IN  /\ call' = <<[text |-> r.text, mapping |-> r.mapping, orphan |-> r.orphan,
                    kind |-> res.kind, err |-> res.err, data |-> res.data]>>
      /\ UNCHANGED submits
      /\ IF res.kind = "delivered"
         THEN /\ timelineData' = res.data
              /\ FreshUploadNext
              /\ readers' = orphaned(rest)
         ELSE /\ readers' = rest
              /\ UNCHANGED timelineData
              /\ IF r.orphan \/ ~mounted
                 THEN UNCHANGED uploadVars
                 ELSE /\ previewData' = res.preview
                      /\ showMapping' = TRUE
                      /\ UNCHANGED <<lastFile, fieldMapping, showManualForm,
                                     manualEntries>>
                      /\ error' = errorAfter(res)
                      /\ csvHeaders' = csvHeadersAfter(res, csvHeaders)

\* The select boxes of the mapping view, lines 438-477.
SetFieldMapping(field, header) ==
  /\ mappingView
  /\ fieldMapping' = [fieldMapping EXCEPT ![field] = header]
  /\ UNCHANGED <<csvHeaders, showMapping, lastFile, previewData, error,
                 showManualForm, manualEntries, timelineData, readers, call,
                 submits>>

\* handleMappingSubmit, lines 208-216, behind the Continue button (481).
HandleMappingSubmit ==
  /\ mappingView
  /\ fieldMapping.phase # "" /\ fieldMapping.startDate # "" /\ fieldMapping.endDate # ""
  /\ Len(readers) < MaxReaders
  /\ readers' = IF lastFile = NoFile THEN readers
                ELSE Append(readers, [text |-> lastFile, mapping |-> <<fieldMapping>>,
                                      orphan |-> FALSE])
  /\ UNCHANGED <<uploadVars, timelineData, call, submits>>

\* onDrop, lines 196-206, with an accepted file of the given text.
OnDrop(text) ==
  /\ dropView
  /\ Len(readers) < MaxReaders
  /\ lastFile' = text
  /\ readers' = Append(readers, [text |-> text, mapping |-> <<>>, orphan |-> FALSE])
  /\ UNCHANGED <<csvHeaders, showMapping, previewData, error, fieldMapping,
                 showManualForm, manualEntries, timelineData, call, submits>>

\* onDrop when the dropzone accepted no file: acceptedFiles[0] is undefined,
\* setLastFile(undefined) is queued and readAsText(undefined) throws.
OnDropRejected ==
  /\ dropView
  /\ lastFile' = NoFile
  /\ UNCHANGED <<csvHeaders, showMapping, previewData, error, fieldMapping,
                 showManualForm, manualEntries, timelineData, readers, call,
                 submits>>

\* resetUpload, lines 225-234, behind "Choose Different File" (410).
ResetUpload ==
  /\ mappingView
  /\ showMapping' = FALSE
  /\ lastFile' = NoFile
  /\ fieldMapping' = emptyMapping
  /\ previewData' = <<>>
  /\ UNCHANGED <<csvHeaders, error, showManualForm, manualEntries, timelineData, readers, call,
                 submits>>

\* setShowManualForm(true), lines 404 and 580.
OpenManualForm ==
  /\ mounted /\ ~showManualForm
  /\ showManualForm' = TRUE
  /\ UNCHANGED <<csvHeaders, showMapping, lastFile, previewData, error, fieldMapping,
                 manualEntries, timelineData, readers, call, submits>>

\* setShowManualForm(false), line 285.
CloseManualForm ==
  /\ manualView
  /\ showManualForm' = FALSE
  /\ UNCHANGED <<csvHeaders, showMapping, lastFile, previewData, error, fieldMapping,
                 manualEntries, timelineData, readers, call, submits>>

\* handleAddEntry, lines 236-238.
HandleAddEntry ==
  /\ manualView
  /\ Len(manualEntries) < MaxEntries
  /\ manualEntries' = Append(manualEntries, initialEntry)
  /\ UNCHANGED <<csvHeaders, showMapping, lastFile, previewData, error, fieldMapping,
                 showManualForm, timelineData, readers, call, submits>>

\* handleRemoveEntry, lines 240-244; its button is there for more than one
\* entry (line 360).
HandleRemoveEntry(index) ==
  /\ manualView
  /\ Len(manualEntries) > 1
  /\ manualEntries' = removeAt(manualEntries, index)
  /\ UNCHANGED <<csvHeaders, showMapping, lastFile, previewData, error, fieldMapping,
                 showManualForm, timelineData, readers, call, submits>>

\* handleManualEntryChange, lines 246-250.
HandleManualEntryChange(index, field, value) ==
  /\ manualView
  /\ manualEntries' = [manualEntries EXCEPT ![index][field] = value]
  /\ UNCHANGED <<csvHeaders, showMapping, lastFile, previewData, error, fieldMapping,
                 showManualForm, timelineData, readers, call, submits>>

\* handleManualSubmit, lines 252-275, with the answer given to
\* window.confirm and the year of new Date().  The records are never empty,
\* so the App unmounts FileUpload and the readers in flight become orphans.
HandleManualSubmit(confirmed, currentYear) ==
  /\ manualView
  /\ submits' = 1 - submits
  /\ IF ~(\A i \in 1..Len(manualEntries) : manualEntryValid(manualEntries[i]))
     THEN /\ error' = ManualError
          /\ UNCHANGED <<csvHeaders, showMapping, lastFile, previewData, fieldMapping,
                         showManualForm, manualEntries, timelineData, readers, call>>
     ELSE IF ~confirmed
       THEN UNCHANGED <<uploadVars, timelineData, readers, call>>
     ELSE /\ timelineData' = timelineEntries(manualEntries, currentYear)
          /\ FreshUploadNext
          /\ readers' = orphaned(readers)
          /\ UNCHANGED call

\* handleReset of the App (Timeline.tsx 151-153), behind "Create Another":
\* the timeline is emptied and a fresh FileUpload is mounted.
HandleReset ==
  /\ ~mounted
  /\ timelineData' = <<>>
  /\ UNCHANGED <<uploadVars, readers, call, submits>>

\* The FileUpload right after onDrop(text): lines 196-206.
Dropped(text) ==
  /\ csvHeaders = <<>>
  /\ showMapping = FALSE
  /\ lastFile = text
  /\ previewData = <<>>
  /\ error = ""
  /\ fieldMapping = emptyMapping
  /\ showManualForm = FALSE
  /\ manualEntries = <<initialEntry>>
  /\ timelineData = <<>>
  /\ readers = <<[text |-> text, mapping |-> <<>>, orphan |-> FALSE]>>
  /\ call = <<>>
  /\ submits = 0

\* The texts dropped: a header and up to MaxRows data lines.
InitCSV ==
  \E n \in 0..MaxRows :
    \/ \E f \in [1..n -> MergeRows] : Dropped(TextOf(DefaultHeader, f))
    \/ \E f \in [1..n -> PhaseRows] :
         \/ Dropped(TextOf(DefaultHeader, f))
         \/ Dropped(Append(TextOf(DefaultHeader, f), BlankLine))
    \/ \E text \in OtherTexts : Dropped(text)

NextCSV ==
  \/ \E i \in 1..Len(readers) : Onload(i)
  \/ \E f \in {"phase", "startDate", "endDate"} :
       \E i \in 1..Len(csvHeaders) :
         fieldMapping[f] = "" /\ SetFieldMapping(f, csvHeaders[i])
  \/ HandleMappingSubmit

SpecCSV == InitCSV /\ [][NextCSV]_vars

\* The files the user has at hand: one that is delivered as it is, one with
\* an end date before its start date, one whose single column needs a mapping.
Files ==
  {<<<<Cell("phase"), Cell("startDate"), Cell("endDate")>>,
     <<Cell("A"), Cell(DayStr(30)), Cell(DayStr(31))>>>>,
   <<<<Cell("phase"), Cell("startDate"), Cell("endDate")>>,
     <<Cell("A"), Cell(DayStr(31)), Cell(DayStr(30))>>>>,
   <<<<Pad("day")>>,
     <<Cell(DayStr(30))>>>>}

Init ==
  /\ FreshUpload
  /\ timelineData = <<>>
  /\ readers = <<>>
  /\ call = <<>>
  /\ submits = 0

Next ==
  \/ \E text \in Files : OnDrop(text)
  \/ OnDropRejected
  \/ \E i \in 1..Len(readers) : Onload(i)
  \/ \E f \in {"phase", "startDate", "endDate"} :
       \/ SetFieldMapping(f, "")
       \/ \E i \in 1..Len(csvHeaders) : SetFieldMapping(f, csvHeaders[i])
  \/ HandleMappingSubmit
  \/ ResetUpload
  \/ OpenManualForm
  \/ CloseManualForm
  \/ HandleReset

Spec == Init /\ [][Next]_vars

\* What the user types into the manual form, and the years it is used in.
ManualPhases == {" ", "A"}
ManualMonths == {0, 2}
ManualDescriptions == {"d"}
Years == {2024, 2025}

\* The edits of the manual form.
ManualEdit ==
  \/ HandleAddEntry
  \/ \E i \in 1..Len(manualEntries) :
       \/ HandleRemoveEntry(i)
       \/ \E v \in ManualPhases : HandleManualEntryChange(i, "phase", v)
       \/ \E v \in ManualMonths : HandleManualEntryChange(i, "startMonth", v)
       \/ \E v \in ManualMonths : HandleManualEntryChange(i, "endMonth", v)
       \/ \E v \in ManualDescriptions : HandleManualEntryChange(i, "description", v)

\* The manual form on its own: opened, filled in, submitted, and the
\* timeline reset.
NextManual ==
  \/ OpenManualForm
  \/ ManualEdit
  \/ \E confirmed \in BOOLEAN : \E currentYear \in Years :
       HandleManualSubmit(confirmed, currentYear)
  \/ HandleReset

SpecManual == Init /\ [][NextManual]_vars

\* The whole FileUpload under the App: the uploads and the mapping view of
\* Next together with a manual form of one entry whose phase is typed in.
NextApp ==
  \/ Next
  \/ \E v \in ManualPhases : HandleManualEntryChange(1, "phase", v)
  \/ \E confirmed \in BOOLEAN : \E currentYear \in Years :
       HandleManualSubmit(confirmed, currentYear)

SpecApp == Init /\ [][NextApp]_vars

(***************************************************************************)
(* Reading the last processCSV call against its CSV text.  These           *)
(* definitions look at the text directly: the columns by header name, the  *)
(* lines by position, the dates through the calendar.                      *)
(***************************************************************************)
called == call # <<>>
lastCall == call[1]

NamesOf(c) == IF c.mapping = <<>> THEN defaultMapping ELSE c.mapping[1]
HeaderRow(text) == [i \in 1..Len(text[1]) |-> text[1][i].txt]
HeaderNames(text) == {text[1][i].txt : i \in 1..Len(text[1])}
Resolves(c) ==
  {NamesOf(c).phase, NamesOf(c).startDate, NamesOf(c).endDate} \subseteq HeaderNames(c.text)
Delivered(c) == c.kind = "delivered"

\* The first column of that name, 0 when there is none.
Column(text, name) ==
  IF name \in HeaderNames(text)
  THEN CHOOSE i \in 1..Len(text[1]) :
         text[1][i].txt = name /\ \A j \in 1..(i - 1) : text[1][j].txt # name
  ELSE 0

\* The trimmed cell of a line in column k, "" when the line has none.
CellAt(line, k) == IF k \in 1..Len(line) THEN line[k].txt ELSE ""

DayOf(txt) == IF txt \in DOMAIN Calendar THEN Calendar[txt] ELSE null

IsBlank(line) == Len(line) = 1 /\ line[1].txt = ""

\* The non-blank lines of the text from line l on, each with its position,
\* its phase, its dates and its note.
RECURSIVE ReadFrom(_, _, _)
ReadFrom(text, cols, l) ==
  IF l > Len(text) THEN <<>>
  ELSE IF IsBlank(text[l]) THEN ReadFrom(text, cols, l + 1)
  ELSE <<[line |-> l,
          phase |-> CellAt(text[l], cols.phase),
          start |-> DayOf(CellAt(text[l], cols.startDate)),
          end |-> DayOf(CellAt(text[l], cols.endDate)),
          note |-> CellAt(text[l], cols.note)]>> \o ReadFrom(text, cols, l + 1)

\* The data rows of a call.
DataRows(c) ==
  LET read == ReadFrom(c.text,
                       [phase |-> Column(c.text, NamesOf(c).phase),
                        startDate |-> Column(c.text, NamesOf(c).startDate),
                        endDate |-> Column(c.text, NamesOf(c).endDate),
                        note |-> Column(c.text, "note")], 2)
  IN  {read[k] : k \in 1..Len(read)}

\* Among rows: those that carry a phase, those of one phase, the phases.
Carrying(rows) == {r \in rows : r.phase # ""}
OfPhase(rows, p) == {r \in rows : r.phase = p}
Phases(rows) == {r.phase : r \in Carrying(rows)}

Reversed(r) == r.start # null /\ r.end # null /\ r.end < r.start
Valid(r) == r.start # null /\ r.end # null /\ r.start <= r.end

RecordsOf(c, p) == {i \in 1..Len(c.data) : c.data[i].phase = p}
RecordOf(c, p) == c.data[CHOOSE i \in 1..Len(c.data) : c.data[i].phase = p]

MaxOf(S) == CHOOSE x \in S : \A y \in S : y <= x
MinOf(S) == CHOOSE x \in S : \A y \in S : x <= y

\* a before b in the start-date order of a phase, ties in line order.
Before(a, b) == a.start < b.start \/ (a.start = b.start /\ a.line < b.line)

\* The end of the range that grows from day d by taking in every row of L
\* that starts on or before the day after its end.
RECURSIVE GrowEnd(_, _)
GrowEnd(L, d) ==
  LET d2 == MaxOf({r.end : r \in {x \in L : x.start <= d + 1}} \cup {d})
  IN  IF d2 = d THEN d ELSE GrowEnd(L, d2)

\* For the rows L of one phase: the start and the end of the first merged
\* range, the rows inside it and the rows beyond it.
FirstStart(L) == MinOf({r.start : r \in L})
FirstEnd(L) == GrowEnd(L, FirstStart(L) - 1)
InFirstRange(L) == {r \in L : r.start <= FirstEnd(L) + 1}
Beyond(L) == L \ InFirstRange(L)

(***************************************************************************)
(* Claims.                                                                 *)
(***************************************************************************)

\* C1: for every CSV text whose mapping resolves and whose rows all pass
\* validation, the call delivers exactly one record per distinct non-empty
\* trimmed phase value of the data rows, and no phase twice.
C1_OneRecordPerPhase ==
  (called /\ Resolves(lastCall))
    => LET rows == Carrying(DataRows(lastCall))
       IN  (rows # {} /\ \A r \in rows : Valid(r))
             => /\ Delivered(lastCall)
                /\ {lastCall.data[i].phase : i \in 1..Len(lastCall.data)} = Phases(rows)
                /\ Len(lastCall.data) = Cardinality(Phases(rows))

\* C2: the delivered records are ordered by the first appearance of their
\* phase in the input rows, whatever the phase names are.
C2_FirstAppearanceOrder ==
  (called /\ Delivered(lastCall))
    => LET rows == DataRows(lastCall)
           first(p) == MinOf({r.line : r \in OfPhase(rows, p)})
       IN  \A i, j \in 1..Len(lastCall.data) :
             i < j => first(lastCall.data[i].phase) < first(lastCall.data[j].phase)

\* Two rows of one phase that overlap: a before b in start-date order and b
\* starting on or before a's end.
Overlapping(a, b) == a # b /\ Before(a, b) /\ b.start <= a.end

LaterEnd(a, b) == MaxOf({a.end, b.end})

\* C3 as stated: for any two validated entries A and B of one phase, A
\* before B in start-date order and B starting on or before A's end, the
\* end date of the phase's record is the later of A's and B's end dates.
C3_OverlapEndIsLaterEnd ==
  (called /\ Delivered(lastCall))
    => LET rows == DataRows(lastCall)
       IN  \A p \in Phases(rows) :
             LET L == OfPhase(rows, p)
                 rec == RecordOf(lastCall, p)
             IN  \A a, b \in L :
                   Overlapping(a, b) => rec.endDate = LaterEnd(a, b)

\* C3 amended: with A inside the phase's first merged range, the record's
\* end date is on or after the later of A's and B's end dates, and equals it
\* when no other entry of that range ends later (so always when A and B are
\* the only entries of the phase).
C3_OverlapEndInFirstRange ==
  (called /\ Delivered(lastCall))
    => LET rows == DataRows(lastCall)
       IN  \A p \in Phases(rows) :
             LET L == OfPhase(rows, p)
                 first == InFirstRange(L)
                 rec == RecordOf(lastCall, p)
             IN  \A a, b \in L :
                   (Overlapping(a, b) /\ a \in first)
                     => /\ rec.endDate >= LaterEnd(a, b)
                        /\ (\A r \in first : r.end <= LaterEnd(a, b))
                             => rec.endDate = LaterEnd(a, b)

\* A delivered phase of two overlapping entries whose second ends later: the
\* record ends with the second.
C3_Witness ==
  /\ called /\ Delivered(lastCall)
  /\ LET rows == DataRows(lastCall)
     IN  \E p \in Phases(rows) : \E a, b \in OfPhase(rows, p) :
           /\ Overlapping(a, b)
           /\ b.end > a.end
           /\ RecordOf(lastCall, p).endDate = b.end

\* The end of the merged range formed by the rows of L before b in
\* start-date order.
EndBefore(L, b) == GrowEnd({r \in L : Before(r, b)}, FirstStart(L) - 1)

\* C4: an entry that starts exactly one calendar day after the end of the
\* merged range formed by the entries before it is merged into that range,
\* and a phase whose entries are [s1..e1] and [e1+1..e2] yields the single
\* record [s1..e2].
C4_AdjacencyMerge ==
  (called /\ Delivered(lastCall))
    => LET rows == DataRows(lastCall)
       IN  \A p \in Phases(rows) :
             LET L == OfPhase(rows, p)
                 rec == RecordOf(lastCall, p)
             IN  /\ \A b \in L :
                      ((\E r \in L : Before(r, b)) /\ b.start = EndBefore(L, b) + 1)
                        => /\ rec.startDate = FirstStart(L)
                           /\ rec.endDate >= b.end
                 /\ \A a, b \in L :
                      (L = {a, b} /\ a # b /\ b.start = a.end + 1)
                        => /\ Cardinality(RecordsOf(lastCall, p)) = 1
                           /\ rec.startDate = a.start
                           /\ rec.endDate = b.end

\* A delivered phase of exactly two entries, the second starting the day
\* after the first ends and lasting more than a day.
C4_Witness ==
  /\ called /\ Delivered(lastCall)
  /\ LET rows == DataRows(lastCall)
     IN  \E p \in Phases(rows) : \E a, b \in OfPhase(rows, p) :
           /\ OfPhase(rows, p) = {a, b} /\ a # b
           /\ b.start = a.end + 1
           /\ b.end > b.start

\* C5: when the entries of a phase form more than one merged range, its
\* record is exactly the first range, from the phase's minimum start date;
\* the later ranges are discarded: their dates and additionalData are not in
\* the output and the phase has no second record.
C5_FirstRangeOnly ==
  (called /\ Delivered(lastCall))
    => LET rows == DataRows(lastCall)
       IN  \A p \in Phases(rows) :
             LET L == OfPhase(rows, p)
                 rec == RecordOf(lastCall, p)
                 noted == "note" \in DOMAIN rec.additionalData
             IN  Beyond(L) # {}
                   => /\ Cardinality(RecordsOf(lastCall, p)) = 1
                      /\ rec.startDate = FirstStart(L)
                      /\ rec.endDate = FirstEnd(L)
                      /\ \A r \in Beyond(L) :
                           /\ rec.endDate < r.start
                           /\ noted => rec.additionalData["note"] # r.note
                      /\ noted => rec.additionalData["note"]
                                    \in {r.note : r \in InFirstRange(L)}

\* A delivered phase with a gap: a first range of two entries and an entry
\* two or more days after its end.
C5_Witness ==
  /\ called /\ Delivered(lastCall)
  /\ LET rows == DataRows(lastCall)
     IN  \E p \in Phases(rows) :
           /\ Beyond(OfPhase(rows, p)) # {}
           /\ Cardinality(InFirstRange(OfPhase(rows, p))) >= 2
           /\ "note" \in DOMAIN RecordOf(lastCall, p).additionalData

\* C6 as stated: if any data row at all has an end date earlier than its
\* start date, the call fails with the invalid-date-range error and no
\* timeline is delivered.
C6_AnyReversedRowFails ==
  (called /\ Resolves(lastCall))
    => ((\E r \in DataRows(lastCall) : Reversed(r))
          => /\ lastCall.kind = "error"
             /\ lastCall.err = "InvalidDateRange"
             /\ lastCall.data = <<>>)

\* C6 amended: if any data row with a non-empty phase has an end date
\* earlier than its start date, the call fails and no timeline is delivered,
\* even if every other row is valid; the error is the invalid-date-range one
\* unless an earlier row has already made the call throw (a date that does
\* not parse, or a phase named like an inherited object property).
C6_ReversedPhaseRowFails ==
  (called /\ Resolves(lastCall))
    => LET rows == Carrying(DataRows(lastCall))
           reversed == {r \in rows : Reversed(r)}
       IN  reversed # {}
             => /\ lastCall.kind = "error"
                /\ lastCall.data = <<>>
                /\ (\A r \in rows :
                       r.line < MinOf({x.line : x \in reversed})
                         => Valid(r) /\ r.phase \notin ObjectPrototypeKeys)
                     => lastCall.err = "InvalidDateRange"

\* A failed call whose reversed row comes after a valid one, every other
\* row being valid.
C6_Witness ==
  /\ called /\ Resolves(lastCall)
  /\ lastCall.err = "InvalidDateRange"
  /\ LET rows == Carrying(DataRows(lastCall))
     IN  \E r \in rows :
           /\ Reversed(r) /\ r.line > 2
           /\ \A x \in rows \ {r} : Valid(x)

\* The text without its line l.
WithoutLine(text, l) ==
  [k \in 1..(Len(text) - 1) |-> IF k < l THEN text[k] ELSE text[k + 1]]

\* C7: a data row whose phase cell is empty after trimming is dropped
\* without error and without affecting the other rows: whatever its date
\* cells hold, the outcome is that of the input with the row removed.
C7_EmptyPhaseRowDropped ==
  (called /\ Resolves(lastCall))
    => \A r \in DataRows(lastCall) :
         r.phase = ""
           => LET res == processCSV(WithoutLine(lastCall.text, r.line), lastCall.mapping)
              IN  /\ res.kind = lastCall.kind
                  /\ res.err = lastCall.err
                  /\ res.data = lastCall.data

\* A delivered call whose text has an empty-phase row with a reversed or
\* unparsable date.
C7_Witness ==
  /\ called /\ Resolves(lastCall) /\ Delivered(lastCall)
  /\ \E r \in DataRows(lastCall) : r.phase = "" /\ ~Valid(r)

\* C8: with a resolved mapping an empty data section fails with the
\* empty-dataset error and delivers nothing, both when no non-blank data row
\* follows the header and when every data row has an empty phase.
C8_EmptyDataset ==
  (called /\ Resolves(lastCall))
    => (Carrying(DataRows(lastCall)) = {}
          => /\ lastCall.kind = "error"
             /\ lastCall.err = "EmptyDataset"
             /\ lastCall.data = <<>>)

\* A failed call over data rows that all have an empty phase, one of them
\* with valid dates.
C8_Witness ==
  /\ called /\ Resolves(lastCall)
  /\ lastCall.err = "EmptyDataset"
  /\ DataRows(lastCall) # {}
  /\ Carrying(DataRows(lastCall)) = {}
  /\ \E r \in DataRows(lastCall) : Valid(r)

\* The reader added by a step that starts a file read.
Started == readers'[Len(readers')]
MappingComplete ==
  fieldMapping.phase # "" /\ fieldMapping.startDate # "" /\ fieldMapping.endDate # ""

\* C9: a call without a mapping whose trimmed header row lacks "phase",
\* "startDate" or "endDate" is the mapping-required outcome: no timeline is
\* delivered and, in the FileUpload that started the read, showMapping is
\* set, csvHeaders becomes the trimmed header row of that text and the error
\* message is empty.
C9_MappingRequired ==
  [][Len(readers') < Len(readers)
       => LET c == call'[1]
          IN  (c.mapping = <<>>
                 /\ ~({"phase", "startDate", "endDate"} \subseteq HeaderNames(c.text)))
                => /\ c.kind = "mapping"
                   /\ timelineData' = timelineData
                   /\ ~c.orphan => /\ showMapping'
                                   /\ csvHeaders' = HeaderRow(c.text)
                                   /\ error' = ""]_vars

\* The mapping view after a mapping-required call: the headers are those of
\* the text just read, whose header cell was padded.
C9_Witness ==
  /\ called /\ lastCall.kind = "mapping" /\ ~lastCall.orphan
  /\ mappingView
  /\ csvHeaders = HeaderRow(lastCall.text) /\ csvHeaders = <<"day">>
  /\ lastCall.text[1][1].ws
  /\ error = ""

\* C10: a call with a mapping one of whose three names is not in the header
\* row fails with the invalid-mapping error: the error message is set (which
\* tells it from the mapping-required outcome, whose message is empty), no
\* timeline is delivered and no read is started; a read with a mapping is
\* started only by the Continue button of the mapping view.
C10_InvalidMapping ==
  [][/\ Len(readers') < Len(readers)
          => LET c == call'[1]
             IN  (c.mapping # <<>> /\ ~Resolves(c))
                   => /\ c.kind = "error" /\ c.err = "InvalidMapping"
                      /\ timelineData' = timelineData
                      /\ readers' \in {removeAt(readers, i) : i \in 1..Len(readers)}
                      /\ ~c.orphan => /\ error' = CsvError /\ error' # ""
                                      /\ showMapping'
     /\ Len(readers') > Len(readers)
          => /\ call' = call
             /\ Started.mapping # <<>>
                  => /\ mappingView /\ MappingComplete /\ lastFile # NoFile
                     /\ Started = [text |-> lastFile, mapping |-> <<fieldMapping>>,
                                   orphan |-> FALSE]]_vars

\* The mapping view with the error message after a call whose mapping names
\* a column the text does not have.
C10_Witness ==
  /\ called /\ lastCall.mapping # <<>> /\ ~Resolves(lastCall)
  /\ lastCall.err = "InvalidMapping" /\ ~lastCall.orphan
  /\ mappingView /\ error = CsvError
  /\ timelineData = <<>>

\* C11: a batch is never partially applied.  A call that does not end in a
\* delivery (mapping required, invalid mapping, a date that does not parse,
\* an end before its start, an empty dataset, a throw of the row loop)
\* leaves the App's timelineData as it was and hands over no records; a call
\* that delivers sets timelineData once, to its records, and every data row
\* with a phase of its text has passed validation.
C11_NoPartialBatch ==
  [][Len(readers') < Len(readers)
       => LET c == call'[1]
          IN  /\ c.kind \in {"mapping", "error", "delivered"}
              /\ c.kind = "error"
                   <=> c.err \in {"InvalidMapping", "InvalidDateFormat",
                                  "InvalidDateRange", "EmptyDataset", "TypeError"}
              /\ c.kind # "delivered"
                   => /\ timelineData' = timelineData
                      /\ c.data = <<>>
              /\ c.kind = "delivered"
                   => /\ timelineData' = c.data
                      /\ Resolves(c)
                      /\ Carrying(DataRows(c)) # {}
                      /\ \A r \in Carrying(DataRows(c)) : Valid(r)]_vars

\* A failed call whose text has a valid row before the row that fails: the
\* timeline is still empty.
C11_Witness ==
  /\ called /\ Resolves(lastCall)
  /\ lastCall.kind = "error"
  /\ lastCall.err \in {"InvalidDateFormat", "InvalidDateRange"}
  /\ timelineData = <<>>
  /\ LET rows == Carrying(DataRows(lastCall))
     IN  \E a, b \in rows : a.line < b.line /\ Valid(a) /\ ~Valid(b)

\* The first days of the months of a year that is not a leap year.
FirstDaysOfMonths == <<1, 32, 60, 91, 121, 152, 182, 213, 244, 274, 305, 335>>

\* The first day of month m (0..11) of year y, read off the calendar.
FirstOfMonth(y, m) ==
  IF y = 2024 THEN Calendar[DateStr(m + 1, 1)] ELSE 366 + FirstDaysOfMonths[m + 1]

\* A manual entry the form must refuse.
Refused(e) == e.phase \in {"", " "} \/ e.startMonth > e.endMonth

\* C12: handleManualSubmit is all-or-nothing.  With an entry whose phase is
\* blank or whose start month is after its end month, it sets the error
\* message and delivers no timeline.  With every entry acceptable (start
\* month equal to end month included) it either leaves everything as it is
\* (the confirmation was declined) or delivers one record per entry, in entry
\* order, from the first day of the start month to the first day of the end
\* month of one and the same year.
C12_ManualAllOrNothing ==
  [][submits' # submits
       => LET entries == manualEntries
              n == Len(entries)
          IN  /\ manualView
              /\ (\E i \in 1..n : Refused(entries[i]))
                   => /\ error' = ManualError /\ error' # ""
                      /\ timelineData' = <<>>
                      /\ manualEntries' = entries
              /\ (\A i \in 1..n : ~Refused(entries[i]))
                   => \/ /\ timelineData' = <<>>
                         /\ manualEntries' = entries
                         /\ error' = error
                      \/ /\ Len(timelineData') = n
                         /\ \E y \in Years : \A i \in 1..n :
                              /\ timelineData'[i].phase = entries[i].phase
                              /\ timelineData'[i].startDate
                                   = FirstOfMonth(y, entries[i].startMonth)
                              /\ timelineData'[i].endDate
                                   = FirstOfMonth(y, entries[i].endMonth)]_vars

\* A timeline delivered by the manual form in 2025: two records in entry
\* order, the first within March, the second from January to December.
C12_Witness ==
  /\ submits = 1 /\ call = <<>>
  /\ Len(timelineData) = 2
  /\ timelineData[1].startDate = FirstOfMonth(2025, 2)
  /\ timelineData[1].endDate = timelineData[1].startDate
  /\ timelineData[2].startDate = FirstOfMonth(2025, 0)
  /\ timelineData[2].endDate = FirstOfMonth(2025, 11)

OtherColumns(c) ==
  {k \in 1..Len(c.text[1]) :
     k \notin {Column(c.text, NamesOf(c).phase), Column(c.text, NamesOf(c).startDate),
               Column(c.text, NamesOf(c).endDate)}}
OtherNames(c) == {c.text[1][k].txt : k \in OtherColumns(c)}

\* What the row on line l holds under the name h: the cell of the last
\* left-over column of that name, undefined when the line is too short.
Held(c, l, h) ==
  LET k == MaxOf({j \in OtherColumns(c) : c.text[1][j].txt = h})
  IN  IF k \in 1..Len(c.text[l]) THEN c.text[l][k].txt ELSE undefined

\* The row of a non-empty set of rows that comes last in start-date order.
LastOf(rows) == CHOOSE r \in rows : \A x \in rows \ {r} : Before(x, r)

\* C14: the additionalData of a phase's record has one key per left-over
\* column name, and under each key the value of the entry that comes last,
\* in ascending start-date order with ties in row order, among exactly the
\* entries merged into the phase's first range: every entry of that range
\* holds every key, so the fold of the union leaves the last entry's values,
\* and an entry beyond the first range contributes nothing.
C14_AdditionalDataFold ==
  (called /\ Delivered(lastCall))
    => LET rows == DataRows(lastCall)
       IN  \A p \in Phases(rows) :
             LET last == LastOf(InFirstRange(OfPhase(rows, p)))
                 rec == RecordOf(lastCall, p)
             IN  /\ DOMAIN rec.additionalData = OtherNames(lastCall)
                 /\ \A h \in OtherNames(lastCall) :
                      rec.additionalData[h] = Held(lastCall, last.line, h)

\* A delivered phase whose first range merges two rows, the row that is
\* later in the text starting earlier: the record carries the note of the
\* row that is earlier in the text.
C14_Witness ==
  /\ called /\ Delivered(lastCall)
  /\ LET rows == DataRows(lastCall)
     IN  \E p \in Phases(rows) :
           LET L == OfPhase(rows, p)
           IN  \E a, b \in InFirstRange(L) :
                 /\ a.line < b.line /\ b.start < a.start
                 /\ LastOf(InFirstRange(L)) = a
                 /\ RecordOf(lastCall, p).additionalData["note"] = a.note
                 /\ a.note # b.note

\* C15: once a non-empty timeline is on display, timelineData changes only
\* by being emptied (handleReset): in particular no onload callback of a
\* read started earlier replaces it.
C15_TimelineOnlyReset ==
  [][timelineData # <<>>
       => (timelineData' = timelineData \/ timelineData' = <<>>)]_vars

\* C16: whenever the mapping view is shown after a processCSV call made for
\* the mounted FileUpload that ended as mapping-required or as a failure,
\* csvHeaders is the trimmed header row of the text that call processed and
\* the last uploaded file is retained, that file being the one processed.
C16_MappingViewOffersTable ==
  (mappingView /\ called /\ ~lastCall.orphan /\ lastCall.kind \in {"mapping", "error"})
    => /\ csvHeaders = HeaderRow(lastCall.text)
       /\ lastFile # NoFile
       /\ lastFile = lastCall.text

====
